---- MODULE Spec2Model ----
(***************************************************************************)
(* A model of package hcloverlay: the CLI argument overlay                  *)
(* (hcloverlay/cli_args.go) and the body wrapper that applies a list of      *)
(* overlays to an HCL body (hcloverlay/overlay.go).                          *)
(*                                                                           *)
(* Go strings are sequences of one-character strings, so that splitting,     *)
(* prefix tests and index searches are computed as the code computes them.   *)
(* A nil Overlay is the empty sequence <<>>, a non-nil one is <<o>>.         *)
(***************************************************************************)
EXTENDS Integers, Sequences, FiniteSets, TLC

VARIABLES
    spec,     \* the decoding target (gohcl struct): the schema of every body
    doc,      \* the parsed configuration file (file.Body)
    overlays, \* the overlays collected so far, to be given to ApplyOverlays
    cli,      \* what the last ParseCLIArgument / ExtractCLIOptions call returned
    res,      \* what the last decoding call on the wrapped body returned
    step      \* a content under direct Overlay method calls, with the last call

vars == <<spec, doc, overlays, cli, res, step>>

----------------------------------------------------------------------------
(* Bounds of the model *)

MaxOverlays == 2   \* overlays handed to one ApplyOverlays call
MaxArgs == 2       \* command line arguments handed to ExtractCLIOptions
MaxSteps == 2      \* direct Overlay method calls on one content

----------------------------------------------------------------------------
(* Go strings and the package "strings" functions the code calls *)

\* IndexByte, except that the index of the last c is returned
IndexByte_Last(s, c) ==
    IF \E i \in 1..Len(s) : s[i] = c
    THEN (CHOOSE i \in 1..Len(s) : s[i] = c /\ \A j \in (i+1)..Len(s) : s[j] # c) - 1
    ELSE -1

\* strings.IndexByte(s, c): the 0-based index of the first c in s, or -1
IndexByte(s, c) ==
    IF \E i \in 1..Len(s) : s[i] = c
    THEN (CHOOSE i \in 1..Len(s) : s[i] = c /\ \A j \in 1..(i-1) : s[j] # c) - 1
    ELSE -1

\* strings.IndexAny(s, chars): the 0-based index of the first character of s
\* that is in chars, or -1
IndexAny(s, chars) ==
    IF \E i \in 1..Len(s) : s[i] \in chars
    THEN (CHOOSE i \in 1..Len(s) :
              s[i] \in chars /\ \A j \in 1..(i-1) : s[j] \notin chars) - 1
    ELSE -1

\* strings.HasPrefix(s, prefix)
HasPrefix(s, prefix) ==
    Len(s) >= Len(prefix) /\ SubSeq(s, 1, Len(prefix)) = prefix

\* the Go slice expressions s[:n] and s[n:] (n is 0-based)
SliceTo(s, n) == SubSeq(s, 1, n)
SliceFrom(s, n) == SubSeq(s, n + 1, Len(s))

\* strings.Split(s, sep) for a one-character separator: always at least one
\* segment, and empty segments are kept
RECURSIVE Split(_, _)
Split(s, sep) ==
    LET i == IndexByte(s, sep)
    IN IF i = -1 THEN <<s>>
       ELSE <<SliceTo(s, i)>> \o Split(SliceFrom(s, i + 1), sep)

Letters == {"a", "b", "c", "j", "k", "n", "s", "w", "x", "y", "f", "v"}
Digits == {"1"}

\* hclsyntax.ValidIdentifier(s): s scans as exactly one identifier token
ValidIdentifier(s) ==
    /\ Len(s) >= 1
    /\ s[1] \in Letters \cup {"_"}
    /\ \A i \in 2..Len(s) : s[i] \in Letters \cup Digits \cup {"_", "-"}

----------------------------------------------------------------------------
(* Diagnostics: Summary, the Detail format string and its arguments *)

\* Subject is "nil" when the diagnostic has no source range
DiagnosticAt(summary, detail, args, subject) ==
    [Severity |-> "DiagError", Summary |-> summary, Detail |-> detail,
     Args |-> args, Subject |-> subject]

Diagnostic(summary, detail, args) == DiagnosticAt(summary, detail, args, "nil")

\* diags.HasErrors()
HasErrors(diags) == \E i \in 1..Len(diags) : diags[i].Severity = "DiagError"

----------------------------------------------------------------------------
(* cliArgOverlay and ParseCLIArgument *)

cliArgOverlay(fullPath, steps, val) ==
    [fullPath |-> fullPath, steps |-> steps, val |-> val]

\* one diagnostic for each step that is not a valid identifier
RECURSIVE StepDiags(_, _)
StepDiags(steps, path) ==
    IF steps = <<>> THEN <<>>
    ELSE (IF ~ValidIdentifier(Head(steps))
          THEN <<Diagnostic("Invalid argument", "Invalid component", <<Head(steps), path>>)>>
          ELSE <<>>) \o StepDiags(Tail(steps), path)

ParseCLIArgument(raw) ==
    LET eq == IndexByte(raw, "=")
    IN IF eq < 1
       THEN [overlay |-> <<>>,
             diags |-> <<Diagnostic("Invalid argument", "must be a configuration setting", <<raw>>)>>]
       ELSE LET path == SliceTo(raw, eq)
                val == SliceFrom(raw, eq + 1)
                steps == Split(path, ".")
                diags == StepDiags(steps, path)
            IN IF HasErrors(diags)
               THEN [overlay |-> <<>>, diags |-> diags]
               ELSE [overlay |-> <<cliArgOverlay(path, steps, val)>>, diags |-> <<>>]

----------------------------------------------------------------------------
(* ExtractCLIOptions *)

\* whether an attribute or a block type of the schema has this name
SchemaMatches(schema, match) ==
    \/ \E i \in 1..Len(schema.Attributes) : schema.Attributes[i].Name = match
    \/ \E i \in 1..Len(schema.Blocks) : schema.Blocks[i].Type = match

\* the name ExtractCLIOptions looks up for an argument that has the "--" prefix
MatchName(arg) ==
    LET raw == SliceFrom(arg, 2)
        sep == IndexAny(raw, {".", "="})
    IN IF sep # -1 THEN SliceTo(raw, sep) ELSE raw

\* the loop over args, from index i on, with the three local variables
RECURSIVE ExtractLoop(_, _, _, _)
ExtractLoop(args, i, schema, acc) ==
    IF i > Len(args) THEN acc
    ELSE LET arg == args[i]
         IN IF arg = <<"-", "-">>
            THEN [acc EXCEPT !.remain = @ \o SubSeq(args, i + 1, Len(args))]
            ELSE IF ~HasPrefix(arg, <<"-", "-">>)
            THEN ExtractLoop(args, i + 1, schema, [acc EXCEPT !.remain = Append(@, arg)])
            ELSE IF ~SchemaMatches(schema, MatchName(arg))
            THEN ExtractLoop(args, i + 1, schema, acc)
            ELSE LET p == ParseCLIArgument(SliceFrom(arg, 2))
                 IN ExtractLoop(args, i + 1, schema,
                        [acc EXCEPT !.diags = @ \o p.diags,
                                    !.overlays = @ \o p.overlay])

\* the three results: overlays, the argument slice, diagnostics
ExtractCLIOptions(args, schema) ==
    LET end == ExtractLoop(args, 1, schema,
                   [remain |-> <<>>, overlays |-> <<>>, diags |-> <<>>])
    IN [overlays |-> end.overlays, args |-> args, diags |-> end.diags]

----------------------------------------------------------------------------
(* Schemas, ranges, attributes, blocks, content and bodies (package hcl) *)

\* hcl.Range{} and the range of something that was read from a file
ZeroRange == "zero"
SrcRange == "source"

\* *hcl.Attribute with a literal string expression
Attribute(name, val, rng) == [Name |-> name, Expr |-> [val |-> val, rng |-> rng]]

Block(type, labels, labelRanges, body) ==
    [Type |-> type, Labels |-> labels, LabelRanges |-> labelRanges, Body |-> body]

BodyContent(attrs, blocks) == [Attributes |-> attrs, Blocks |-> blocks]

\* the three kinds of hcl.Body of the model: a body read from a file,
\* hcl.EmptyBody(), and this package's applyBody
SyntaxBody(attrs, blocks) ==
    [kind |-> "syntax", Attributes |-> attrs, Blocks |-> blocks,
     inner |-> <<>>, overlays |-> <<>>]

EmptyBody ==
    [kind |-> "empty", Attributes |-> <<>>, Blocks |-> <<>>,
     inner |-> <<>>, overlays |-> <<>>]

applyBody(inner, ovs) ==
    [kind |-> "apply", Attributes |-> <<>>, Blocks |-> <<>>,
     inner |-> <<inner>>, overlays |-> ovs]

ApplyOverlays(body, ovs) ==
    IF Len(ovs) = 0 THEN body ELSE applyBody(body, ovs)

\* SetAttr, except that the map is replaced by one with just the new entry
SetAttr_OnlyNew(attrs, name, attr) == [n \in {name} |-> attr]

\* SetAttr, except that an attribute the content already has is kept
SetAttr_KeepExisting(attrs, name, attr) ==
    [n \in (DOMAIN attrs) \cup {name} |-> IF n \in DOMAIN attrs THEN attrs[n] ELSE attr]

\* content.Attributes[name] = attr
SetAttr(attrs, name, attr) ==
    [n \in (DOMAIN attrs) \cup {name} |-> IF n = name THEN attr ELSE attrs[n]]

\* a set of strings as a sequence
RECURSIVE SetToSeq(_)
SetToSeq(S) ==
    IF S = {} THEN <<>>
    ELSE LET x == CHOOSE y \in S : TRUE IN <<x>> \o SetToSeq(S \ {x})

\* gohcl.ImpliedBodySchema: the hcl.BodySchema of a decoding target
ImpliedBodySchema(sp) ==
    [Attributes |-> sp.Attributes,
     Blocks |-> [i \in 1..Len(sp.Blocks) |->
                    [Type |-> sp.Blocks[i].Type, LabelNames |-> sp.Blocks[i].LabelNames]]]

HasAttrS(schema, name) ==
    \E i \in 1..Len(schema.Attributes) : schema.Attributes[i].Name = name

HasBlockS(schema, type) ==
    \E i \in 1..Len(schema.Blocks) : schema.Blocks[i].Type = type

\* the index of the first block schema of this type, or 0
FirstBlockS(blockSchemas, type) ==
    IF \E i \in 1..Len(blockSchemas) : blockSchemas[i].Type = type
    THEN CHOOSE i \in 1..Len(blockSchemas) :
             /\ blockSchemas[i].Type = type
             /\ \A j \in 1..(i-1) : blockSchemas[j].Type # type
    ELSE 0

\* "Missing required argument" for each required attribute of the schema that
\* attrs lacks, in schema order
RECURSIVE MissingRequired(_, _, _)
MissingRequired(attrSchemas, attrs, subject) ==
    IF attrSchemas = <<>> THEN <<>>
    ELSE (IF Head(attrSchemas).Required /\ Head(attrSchemas).Name \notin DOMAIN attrs
          THEN <<DiagnosticAt("Missing required argument", "is required",
                              <<Head(attrSchemas).Name>>, subject)>>
          ELSE <<>>) \o MissingRequired(Tail(attrSchemas), attrs, subject)

----------------------------------------------------------------------------
(* The bodies this package wraps: hclsyntax.Body and hcl.EmptyBody() *)

\* the blocks of a file body that the schema selects, with a diagnostic for
\* each block of a selected type that has the wrong number of labels
RECURSIVE SyntaxBlocks(_, _)
SyntaxBlocks(blocks, schema) ==
    IF blocks = <<>> THEN [blocks |-> <<>>, diags |-> <<>>]
    ELSE LET b == Head(blocks)
             rest == SyntaxBlocks(Tail(blocks), schema)
             si == FirstBlockS(schema.Blocks, b.Type)
         IN IF si = 0 THEN rest
            ELSE IF Len(b.Labels) # Len(schema.Blocks[si].LabelNames)
            THEN [rest EXCEPT !.diags =
                     <<DiagnosticAt("Wrong number of labels", "for block", <<b.Type>>, SrcRange)>> \o @]
            ELSE [rest EXCEPT !.blocks = <<b>> \o @]

\* the blocks of a file body whose type the schema does not have
RECURSIVE LeftoverBlocks(_, _)
LeftoverBlocks(blocks, schema) ==
    IF blocks = <<>> THEN <<>>
    ELSE (IF HasBlockS(schema, Head(blocks).Type) THEN <<>> ELSE <<Head(blocks)>>)
             \o LeftoverBlocks(Tail(blocks), schema)

SyntaxPartialContent(body, schema) ==
    LET names == {n \in DOMAIN body.Attributes : HasAttrS(schema, n)}
        attrs == [n \in names |-> body.Attributes[n]]
        sel == SyntaxBlocks(body.Blocks, schema)
        rest == [n \in (DOMAIN body.Attributes) \ names |-> body.Attributes[n]]
    IN [content |-> BodyContent(attrs, sel.blocks),
        remain |-> SyntaxBody(rest, LeftoverBlocks(body.Blocks, schema)),
        diags |-> MissingRequired(schema.Attributes, attrs, SrcRange) \o sel.diags]

\* Content is PartialContent plus an error for everything that is left
SyntaxContent(body, schema) ==
    LET p == SyntaxPartialContent(body, schema)
        badAttrs == SetToSeq(DOMAIN p.remain.Attributes)
    IN [content |-> p.content,
        diags |-> p.diags
            \o [i \in 1..Len(badAttrs) |->
                   DiagnosticAt("Unsupported argument", "is not expected here",
                                <<badAttrs[i]>>, SrcRange)]
            \o [i \in 1..Len(p.remain.Blocks) |->
                   DiagnosticAt("Unsupported block type", "are not expected here",
                                <<p.remain.Blocks[i].Type>>, SrcRange)]]

SyntaxJustAttributes(body) ==
    [attrs |-> body.Attributes,
     diags |-> [i \in 1..Len(body.Blocks) |->
                   DiagnosticAt("Unexpected block", "Blocks are not allowed here",
                                <<body.Blocks[i].Type>>, SrcRange)]]

EmptyPartialContent(schema) ==
    [content |-> BodyContent(<<>>, <<>>),
     remain |-> EmptyBody,
     diags |-> MissingRequired(schema.Attributes, <<>>, ZeroRange)]

----------------------------------------------------------------------------
(* cliArgOverlay: the three Overlay methods *)

invalidArgError(o) ==
    Diagnostic("Invalid argument", "Unexpected argument", <<o.fullPath>>)

\* labelsMatch, except that only the number of labels is compared
labelsMatch_SameLength(a, b) == Len(a) = Len(b)

\* labelsMatch, without the case of two empty label lists (as when a nil
\* and an empty slice are compared with reflect.DeepEqual)
labelsMatch_NoEmptyCase(a, b) ==
    IF Len(a) = 0 /\ Len(b) = 0 THEN FALSE ELSE a = b

labelsMatch(a, b) ==
    IF Len(a) = 0 /\ Len(b) = 0 THEN TRUE ELSE a = b

\* a path written with dots between its steps
RECURSIVE JoinDots(_)
JoinDots(steps) ==
    IF Len(steps) = 1 THEN steps[1]
    ELSE steps[1] \o <<".">> \o JoinDots(Tail(steps))

\* subOverlay, except that the path of the sub-overlay is the path that is left
subOverlay_TruncatedPath(o, remainingSteps) ==
    cliArgOverlay(JoinDots(remainingSteps), remainingSteps, o.val)

subOverlay(o, remainingSteps) ==
    cliArgOverlay(o.fullPath, remainingSteps, o.val)

\* FirstBlock, except that the last block with the header is chosen
FirstBlock_LastMatch(blocks, type, wantLabels) ==
    IF \E i \in 1..Len(blocks) :
           blocks[i].Type = type /\ labelsMatch(blocks[i].Labels, wantLabels)
    THEN CHOOSE i \in 1..Len(blocks) :
             /\ blocks[i].Type = type /\ labelsMatch(blocks[i].Labels, wantLabels)
             /\ \A j \in (i+1)..Len(blocks) :
                    ~(blocks[j].Type = type /\ labelsMatch(blocks[j].Labels, wantLabels))
    ELSE 0

\* the index of the first block that has the type and the labels, or 0
FirstBlock(blocks, type, wantLabels) ==
    IF \E i \in 1..Len(blocks) :
           blocks[i].Type = type /\ labelsMatch(blocks[i].Labels, wantLabels)
    THEN CHOOSE i \in 1..Len(blocks) :
             /\ blocks[i].Type = type /\ labelsMatch(blocks[i].Labels, wantLabels)
             /\ \A j \in 1..(i-1) :
                    ~(blocks[j].Type = type /\ labelsMatch(blocks[j].Labels, wantLabels))
    ELSE 0

\* overrideAttribute, except that steps after the first are ignored
overrideAttribute_IgnoreRest(o, content) ==
    [content |-> [content EXCEPT !.Attributes =
                     SetAttr(@, o.steps[1], Attribute(o.steps[1], o.val, ZeroRange))],
     remain |-> <<>>, diags |-> <<>>]

\* the attribute branch: the first step names an attribute of the schema
overrideAttribute(o, content) ==
    IF Len(o.steps) # 1
    THEN [content |-> content, remain |-> <<>>, diags |-> <<invalidArgError(o)>>]
    ELSE [content |-> [content EXCEPT !.Attributes =
                          SetAttr(@, o.steps[1], Attribute(o.steps[1], o.val, ZeroRange))],
          remain |-> <<>>, diags |-> <<>>]

\* the block constructed when no block has the wanted header
newBlock(blockS, wantLabels, sub) ==
    Block(blockS.Type, wantLabels, [i \in 1..Len(wantLabels) |-> ZeroRange],
          ApplyOverlays(EmptyBody, <<sub>>))

\* the block branch: the first step names the block type blockS of the schema
overrideBlock(o, content, blockS) ==
    LET needStepCount == 1 + 1 + Len(blockS.LabelNames)
    IN IF Len(o.steps) < needStepCount
       THEN [content |-> content, remain |-> <<>>, diags |-> <<invalidArgError(o)>>]
       ELSE LET wantLabels == SubSeq(o.steps, 2, Len(blockS.LabelNames) + 1)
                remainingSteps == SubSeq(o.steps, Len(wantLabels) + 2, Len(o.steps))
                sub == subOverlay(o, remainingSteps)
                found == FirstBlock(content.Blocks, blockS.Type, wantLabels)
            IN IF found # 0
               THEN [content |-> [content EXCEPT !.Blocks[found].Body =
                                     ApplyOverlays(@, <<sub>>)],
                     remain |-> <<>>, diags |-> <<>>]
               ELSE [content |-> [content EXCEPT !.Blocks =
                                     Append(@, newBlock(blockS, wantLabels, sub))],
                     remain |-> <<>>, diags |-> <<>>]

\* PartialApplyOverlay, except that an overlay rejected with an error is
\* also returned as the leftover
PartialApplyOverlay_LeftoverOnError(o, content, schema) ==
    LET name == o.steps[1]
        bi == FirstBlockS(schema.Blocks, name)
        r == IF HasAttrS(schema, name) THEN overrideAttribute(o, content)
             ELSE IF bi # 0 THEN overrideBlock(o, content, schema.Blocks[bi])
             ELSE [content |-> content, remain |-> <<o>>, diags |-> <<>>]
    IN IF r.diags # <<>> THEN [r EXCEPT !.remain = <<o>>] ELSE r

\* the result is content, the leftover Overlay (remain) and diagnostics
PartialApplyOverlay(o, content, schema) ==
    LET name == o.steps[1]
        bi == FirstBlockS(schema.Blocks, name)
    IN IF HasAttrS(schema, name) THEN overrideAttribute(o, content)
       ELSE IF bi # 0 THEN overrideBlock(o, content, schema.Blocks[bi])
       ELSE [content |-> content, remain |-> <<o>>, diags |-> <<>>]

ApplyOverlay(o, content, schema) ==
    LET p == PartialApplyOverlay(o, content, schema)
    IN [content |-> p.content,
        diags |-> IF p.remain # <<>> THEN Append(p.diags, invalidArgError(o)) ELSE p.diags]

\* ApplyJustAttributes, except that the number of steps is not checked
ApplyJustAttributes_FirstStep(o, attrs) ==
    [attrs |-> SetAttr(attrs, o.steps[1], Attribute(o.steps[1], o.val, ZeroRange)),
     diags |-> <<>>]

ApplyJustAttributes(o, attrs) ==
    IF Len(o.steps) # 1
    THEN [attrs |-> attrs, diags |-> <<invalidArgError(o)>>]
    ELSE [attrs |-> SetAttr(attrs, o.steps[1], Attribute(o.steps[1], o.val, ZeroRange)),
          diags |-> <<>>]

----------------------------------------------------------------------------
(* applyBody: the wrapped body and its decoding methods *)

\* schemaNoRequired, except that the Required flags are kept
schemaNoRequired_AsGiven(given) ==
    [Attributes |-> given.Attributes, Blocks |-> given.Blocks]

schemaNoRequired(given) ==
    [Attributes |-> [i \in 1..Len(given.Attributes) |->
                        [given.Attributes[i] EXCEPT !.Required = FALSE]],
     Blocks |-> given.Blocks]

RECURSIVE MissingItemRange(_)
MissingItemRange(b) ==
    CASE b.kind = "syntax" -> SrcRange
      [] b.kind = "empty" -> ZeroRange
      [] b.kind = "apply" -> MissingItemRange(b.inner[1])

prepareContent(b, result, schema, diags) ==
    [content |-> result,
     diags |-> diags \o MissingRequired(schema.Attributes, result.Attributes,
                                        MissingItemRange(b))]

\* ContentLoop, except that the overlays are taken from the last to the first
RECURSIVE ContentLoop_Reversed(_, _, _, _, _)
ContentLoop_Reversed(ovs, i, content, diags, modSchema) ==
    IF i > Len(ovs) THEN [content |-> content, diags |-> diags]
    ELSE LET a == ApplyOverlay(ovs[Len(ovs) + 1 - i], content, modSchema)
         IN ContentLoop_Reversed(ovs, i + 1, a.content, diags \o a.diags, modSchema)

\* the loop of Content over b.overlays, from index i on
RECURSIVE ContentLoop(_, _, _, _, _)
ContentLoop(ovs, i, content, diags, modSchema) ==
    IF i > Len(ovs) THEN [content |-> content, diags |-> diags]
    ELSE LET a == ApplyOverlay(ovs[i], content, modSchema)
         IN ContentLoop(ovs, i + 1, a.content, diags \o a.diags, modSchema)

\* PartialContentLoop, except that every overlay is kept for the remainder
RECURSIVE PartialContentLoop_KeepAll(_, _, _, _, _, _)
PartialContentLoop_KeepAll(ovs, i, content, diags, remainOverlays, modSchema) ==
    IF i > Len(ovs)
    THEN [content |-> content, diags |-> diags, remainOverlays |-> remainOverlays]
    ELSE LET p == PartialApplyOverlay(ovs[i], content, modSchema)
         IN PartialContentLoop_KeepAll(ovs, i + 1, p.content, diags \o p.diags,
                                       Append(remainOverlays, ovs[i]), modSchema)

\* the loop of PartialContent over b.overlays, from index i on
RECURSIVE PartialContentLoop(_, _, _, _, _, _)
PartialContentLoop(ovs, i, content, diags, remainOverlays, modSchema) ==
    IF i > Len(ovs)
    THEN [content |-> content, diags |-> diags, remainOverlays |-> remainOverlays]
    ELSE LET p == PartialApplyOverlay(ovs[i], content, modSchema)
         IN PartialContentLoop(ovs, i + 1, p.content, diags \o p.diags,
                               remainOverlays \o p.remain, modSchema)

\* the loop of JustAttributes over b.overlays, from index i on
RECURSIVE JustAttributesLoop(_, _, _, _)
JustAttributesLoop(ovs, i, attrs, diags) ==
    IF i > Len(ovs) THEN [attrs |-> attrs, diags |-> diags]
    ELSE LET a == ApplyJustAttributes(ovs[i], attrs)
         IN JustAttributesLoop(ovs, i + 1, a.attrs, diags \o a.diags)

RECURSIVE Content(_, _), PartialContent(_, _), JustAttributes(_)
RECURSIVE BodyDotContent(_, _), BodyDotPartialContent(_, _), BodyDotJustAttributes(_)

\* body.Content(schema) on any hcl.Body
BodyDotContent(body, schema) ==
    CASE body.kind = "syntax" -> SyntaxContent(body, schema)
      [] body.kind = "empty" ->
            LET p == EmptyPartialContent(schema)
            IN [content |-> p.content, diags |-> p.diags]
      [] body.kind = "apply" -> Content(body, schema)

\* body.PartialContent(schema) on any hcl.Body
BodyDotPartialContent(body, schema) ==
    CASE body.kind = "syntax" -> SyntaxPartialContent(body, schema)
      [] body.kind = "empty" -> EmptyPartialContent(schema)
      [] body.kind = "apply" -> PartialContent(body, schema)

\* body.JustAttributes() on any hcl.Body
BodyDotJustAttributes(body) ==
    CASE body.kind = "syntax" -> SyntaxJustAttributes(body)
      [] body.kind = "empty" -> [attrs |-> <<>>, diags |-> <<>>]
      [] body.kind = "apply" -> JustAttributes(body)

Content(b, schema) ==
    LET modSchema == schemaNoRequired(schema)
        in == BodyDotContent(b.inner[1], modSchema)
        out == ContentLoop(b.overlays, 1, in.content, in.diags, modSchema)
    IN prepareContent(b, out.content, schema, out.diags)

PartialContent(b, schema) ==
    LET modSchema == schemaNoRequired(schema)
        in == BodyDotPartialContent(b.inner[1], modSchema)
        out == PartialContentLoop(b.overlays, 1, in.content, in.diags, <<>>, modSchema)
        remain == ApplyOverlays(in.remain, out.remainOverlays)
        done == prepareContent(b, out.content, schema, out.diags)
    IN [content |-> done.content, remain |-> remain, diags |-> done.diags]

JustAttributes(b) ==
    LET in == BodyDotJustAttributes(b.inner[1])
    IN JustAttributesLoop(b.overlays, 1, in.attrs, in.diags)

----------------------------------------------------------------------------
(* gohcl.DecodeBody: the full decode of a body into a value *)

RECURSIVE DecodeBody(_, _), DecodeBlocks(_, _)

\* the blocks of the content, decoded each with the decoding target of its type
DecodeBlocks(blocks, sp) ==
    IF blocks = <<>> THEN [val |-> <<>>, diags |-> <<>>]
    ELSE LET b == Head(blocks)
             si == FirstBlockS(sp.Blocks, b.Type)
             d == DecodeBody(b.Body, sp.Blocks[si].Body)
             rest == DecodeBlocks(Tail(blocks), sp)
         IN [val |-> <<[Type |-> b.Type, Labels |-> b.Labels, Body |-> d.val]>> \o rest.val,
             diags |-> d.diags \o rest.diags]

DecodeBody(body, sp) ==
    LET c == BodyDotContent(body, ImpliedBodySchema(sp))
        blocks == DecodeBlocks(c.content.Blocks, sp)
    IN [val |-> [Attributes |-> [n \in DOMAIN c.content.Attributes |->
                                    c.content.Attributes[n].Expr.val],
                 Blocks |-> blocks.val],
        diags |-> c.diags \o blocks.diags]

----------------------------------------------------------------------------
(* The inputs: decoding targets, configuration files and arguments *)

AttrS(name, required) == [Name |-> name, Required |-> required]
BlockS(type, labelNames, body) == [Type |-> type, LabelNames |-> labelNames, Body |-> body]

\* struct { Foo string `hcl:"a"` }
LeafSpec == [Attributes |-> <<AttrS(<<"a">>, TRUE)>>, Blocks |-> <<>>]

InnerSpec ==
    [Attributes |-> <<AttrS(<<"a">>, TRUE), AttrS(<<"b">>, FALSE)>>,
     Blocks |-> <<BlockS(<<"n">>, <<>>, LeafSpec)>>]

\* attributes a (required) and b, block types s (one label), n (no label)
\* and w (two labels)
RootSpec ==
    [Attributes |-> <<AttrS(<<"a">>, TRUE), AttrS(<<"b">>, FALSE)>>,
     Blocks |-> <<BlockS(<<"s">>, <<"name">>, InnerSpec),
                  BlockS(<<"n">>, <<>>, LeafSpec),
                  BlockS(<<"w">>, <<"type", "name">>, LeafSpec)>>]

\* attributes b (required) and c, block type n (no label)
AltSpec ==
    [Attributes |-> <<AttrS(<<"b">>, TRUE), AttrS(<<"c">>, FALSE)>>,
     Blocks |-> <<BlockS(<<"n">>, <<>>, InnerSpec)>>]

Specs == {RootSpec, AltSpec}

FileAttrs(names) == [n \in names |-> Attribute(n, <<"v">>, SrcRange)]

FileBlock(type, labels, body) ==
    Block(type, labels, [i \in 1..Len(labels) |-> SrcRange], body)

Docs ==
    { SyntaxBody(<<>>, <<>>),
      SyntaxBody(FileAttrs({<<"a">>}),
          << FileBlock(<<"s">>, <<<<"j">>>>, SyntaxBody(FileAttrs({<<"a">>}), <<>>)),
             FileBlock(<<"s">>, <<<<"k">>>>, SyntaxBody(FileAttrs({<<"a">>}), <<>>)) >>),
      SyntaxBody(FileAttrs({<<"a">>, <<"b">>}),
          << FileBlock(<<"s">>, <<<<"k">>>>, SyntaxBody(FileAttrs({<<"a">>}), <<>>)),
             FileBlock(<<"n">>, <<>>, SyntaxBody(<<>>, <<>>)),
             FileBlock(<<"s">>, <<<<"k">>>>, SyntaxBody(FileAttrs({<<"b">>}), <<>>)),
             FileBlock(<<"w">>, <<<<"k">>, <<"j">>>>, SyntaxBody(FileAttrs({<<"a">>}), <<>>)) >>),
      SyntaxBody(FileAttrs({<<"c">>}),
          << FileBlock(<<"n">>, <<>>,
                 SyntaxBody(FileAttrs({<<"a">>}),
                     << FileBlock(<<"n">>, <<>>, SyntaxBody(FileAttrs({<<"a">>}), <<>>)) >>)),
             FileBlock(<<"s">>, <<<<"j">>>>, SyntaxBody(FileAttrs({<<"a">>}), <<>>)) >>) }

\* the arguments given to ParseCLIArgument
RawArgs ==
    { <<"a", "=", "x">>,
      <<"a", "=", "y">>,
      <<"b", "=">>,
      <<"c", "=", "x">>,
      <<"a", ".", "b", "=", "x">>,
      <<"s", ".", "k", ".", "a", "=", "x">>,
      <<"s", ".", "k", ".", "b", "=", "y">>,
      <<"s", ".", "k", "=", "x">>,
      <<"n", ".", "a", "=", "x">>,
      <<"n", ".", "n", ".", "a", "=", "x">>,
      <<"w", ".", "k", ".", "j", ".", "c", "=", "x">>,
      <<"w", ".", "k", ".", "f", ".", "a", "=", "y">>,
      <<"w", ".", "k", "=", "x">>,
      <<"a", "=", "x", "=", ".", "y">>,
      <<"a">>,
      <<"=", "x">>,
      <<"a", ".", "1", "=", "x">>,
      <<"a", ".", ".", "b", "=", "x">>,
      <<"1", ".", "-", "a", "=", "x">> }

\* the overlays ParseCLIArgument makes of them
ParsedOverlays ==
    {ParseCLIArgument(raw).overlay[1] : raw \in {r \in RawArgs : ParseCLIArgument(r).overlay # <<>>}}

\* the command line arguments given to ExtractCLIOptions
CLIArgs ==
    { <<"-", "-", "a", "=", "x">>,
      <<"-", "-", "s", ".", "k", ".", "a", "=", "x">>,
      <<"-", "-", "c", "=", "x">>,
      <<"-", "-", "a">>,
      <<"-", "-">>,
      <<"f">> }

RECURSIVE SeqsUpTo(_, _)
SeqsUpTo(S, n) ==
    IF n = 0 THEN {<<>>}
    ELSE LET shorter == SeqsUpTo(S, n - 1)
         IN shorter \cup {Append(q, x) : q \in shorter, x \in S}

----------------------------------------------------------------------------
(* The state machine: the calls a program makes on the package *)

NoCall == [op |-> "none", raw |-> <<>>, args |-> <<>>, overlays |-> <<>>,
           remain |-> <<>>, diags |-> <<>>]

NoRes == [op |-> "none", schema |-> <<>>, content |-> <<>>, remain |-> <<>>,
          attrs |-> <<>>, val |-> <<>>, diags |-> <<>>]

\* the content that the overlays of a call are applied to: the file's
\* content under the schema with nothing required
InnerContent == BodyDotContent(doc, schemaNoRequired(ImpliedBodySchema(spec))).content

Init ==
    /\ spec \in Specs
    /\ doc \in Docs
    /\ overlays = <<>>
    /\ cli = NoCall
    /\ res = NoRes
    /\ step = [n |-> 0, op |-> "none", o |-> <<>>, before |-> InnerContent,
               content |-> InnerContent, remain |-> <<>>, diags |-> <<>>]

Fresh == cli.op = "none" /\ res.op = "none" /\ step.n = 0 /\ overlays = <<>>

\* o, diags := ParseCLIArgument(raw), and o joins the overlays when it is not nil
ParseArg(raw) ==
    /\ res.op = "none" /\ step.n = 0 /\ cli.op \in {"none", "ParseCLIArgument"}
    /\ Len(overlays) < MaxOverlays
    /\ LET p == ParseCLIArgument(raw)
       IN /\ cli' = [NoCall EXCEPT !.op = "ParseCLIArgument", !.raw = raw,
                                   !.overlays = p.overlay, !.diags = p.diags]
          /\ overlays' = overlays \o p.overlay
    /\ UNCHANGED <<spec, doc, res, step>>

\* overlays, args, diags := ExtractCLIOptions(args, rootSchema)
Extract(args) ==
    /\ Fresh
    /\ LET r == ExtractCLIOptions(args, ImpliedBodySchema(spec))
       IN /\ cli' = [NoCall EXCEPT !.op = "ExtractCLIOptions", !.args = args,
                                   !.overlays = r.overlays, !.remain = r.args,
                                   !.diags = r.diags]
          /\ overlays' = r.overlays
    /\ UNCHANGED <<spec, doc, res, step>>

\* body := ApplyOverlays(file.Body, overlays...)
View == ApplyOverlays(doc, overlays)

CallContent ==
    /\ res.op = "none" /\ step.n = 0
    /\ LET r == BodyDotContent(View, ImpliedBodySchema(spec))
       IN res' = [NoRes EXCEPT !.op = "Content", !.schema = ImpliedBodySchema(spec),
                               !.content = r.content, !.diags = r.diags]
    /\ UNCHANGED <<spec, doc, overlays, cli, step>>

CallPartialContent ==
    /\ res.op = "none" /\ step.n = 0
    /\ LET r == BodyDotPartialContent(View, ImpliedBodySchema(spec))
       IN res' = [NoRes EXCEPT !.op = "PartialContent", !.schema = ImpliedBodySchema(spec),
                               !.content = r.content, !.remain = <<r.remain>>,
                               !.diags = r.diags]
    /\ UNCHANGED <<spec, doc, overlays, cli, step>>

\* the next pass: Content on the remainder of PartialContent, with another schema
CallRemainContent(sp) ==
    /\ res.op = "PartialContent" /\ sp # spec
    /\ LET r == BodyDotContent(res.remain[1], ImpliedBodySchema(sp))
       IN res' = [NoRes EXCEPT !.op = "RemainContent", !.schema = ImpliedBodySchema(sp),
                               !.content = r.content, !.remain = res.remain,
                               !.diags = r.diags]
    /\ UNCHANGED <<spec, doc, overlays, cli, step>>

CallJustAttributes ==
    /\ res.op = "none" /\ step.n = 0
    /\ LET r == BodyDotJustAttributes(View)
       IN res' = [NoRes EXCEPT !.op = "JustAttributes", !.attrs = r.attrs, !.diags = r.diags]
    /\ UNCHANGED <<spec, doc, overlays, cli, step>>

\* diags := gohcl.DecodeBody(body, nil, &config)
CallDecodeBody ==
    /\ res.op = "none" /\ step.n = 0
    /\ LET r == DecodeBody(View, spec)
       IN res' = [NoRes EXCEPT !.op = "DecodeBody", !.val = r.val, !.diags = r.diags]
    /\ UNCHANGED <<spec, doc, overlays, cli, step>>

StepReady == cli.op = "none" /\ res.op = "none" /\ overlays = <<>> /\ step.n < MaxSteps

StepSchema == schemaNoRequired(ImpliedBodySchema(spec))

\* content, diags = o.ApplyOverlay(content, schema)
CallApplyOverlay(o) ==
    /\ StepReady
    /\ LET r == ApplyOverlay(o, step.content, StepSchema)
       IN step' = [n |-> step.n + 1, op |-> "ApplyOverlay", o |-> <<o>>,
                   before |-> step.content, content |-> r.content,
                   remain |-> <<>>, diags |-> r.diags]
    /\ UNCHANGED <<spec, doc, overlays, cli, res>>

\* content, remain, diags = o.PartialApplyOverlay(content, schema)
CallPartialApplyOverlay(o) ==
    /\ StepReady
    /\ LET r == PartialApplyOverlay(o, step.content, StepSchema)
       IN step' = [n |-> step.n + 1, op |-> "PartialApplyOverlay", o |-> <<o>>,
                   before |-> step.content, content |-> r.content,
                   remain |-> r.remain, diags |-> r.diags]
    /\ UNCHANGED <<spec, doc, overlays, cli, res>>

\* attrs, diags = o.ApplyJustAttributes(attrs)
CallApplyJustAttributes(o) ==
    /\ StepReady
    /\ LET r == ApplyJustAttributes(o, step.content.Attributes)
       IN step' = [n |-> step.n + 1, op |-> "ApplyJustAttributes", o |-> <<o>>,
                   before |-> step.content,
                   content |-> [step.content EXCEPT !.Attributes = r.attrs],
                   remain |-> <<>>, diags |-> r.diags]
    /\ UNCHANGED <<spec, doc, overlays, cli, res>>

Next ==
    \/ \E raw \in RawArgs : ParseArg(raw)
    \/ \E args \in SeqsUpTo(CLIArgs, MaxArgs) : Extract(args)
    \/ CallContent
    \/ CallPartialContent
    \/ \E sp \in Specs : CallRemainContent(sp)
    \/ CallJustAttributes
    \/ CallDecodeBody
    \/ \E o \in ParsedOverlays : CallApplyOverlay(o)
    \/ \E o \in ParsedOverlays : CallPartialApplyOverlay(o)
    \/ \E o \in ParsedOverlays : CallApplyJustAttributes(o)

Spec == Init /\ [][Next]_vars

----------------------------------------------------------------------------
(* Properties *)

\* the schema-independent reading of a path against a schema: the block
\* schema its first step names (0 when none), the labels it selects and
\* the steps that are left for the selected block's body
PathBlockS(o, schema) == FirstBlockS(schema.Blocks, o.steps[1])
PathLabelCount(o, schema) == Len(schema.Blocks[PathBlockS(o, schema)].LabelNames)
PathLabels(o, schema) == SubSeq(o.steps, 2, PathLabelCount(o, schema) + 1)
PathRest(o, schema) == SubSeq(o.steps, PathLabelCount(o, schema) + 2, Len(o.steps))

\* the path goes into a block of the schema and is long enough for it
IsBlockPath(o, schema) ==
    /\ ~HasAttrS(schema, o.steps[1])
    /\ PathBlockS(o, schema) # 0
    /\ Len(o.steps) >= PathLabelCount(o, schema) + 2

\* the blocks of a list that have exactly this type and these labels
HeaderMatches(blocks, type, labels) ==
    {i \in 1..Len(blocks) : blocks[i].Type = type /\ blocks[i].Labels = labels}

\* the sub-overlay that is handed to the selected block's body
RestOverlay(o, schema) ==
    [fullPath |-> o.fullPath, steps |-> PathRest(o, schema), val |-> o.val]

\* C1: through a view with the single one-step overlay a=v, a an attribute
\* of the schema, Content yields attribute a as the literal string v with
\* the zero range, whether the file defines a or not, and the overlay adds
\* no diagnostic.
C1_SingleStepOverlaySetsAttribute ==
    (/\ res.op = "Content"
     /\ Len(overlays) = 1
     /\ Len(overlays[1].steps) = 1
     /\ HasAttrS(res.schema, overlays[1].steps[1]))
    => LET o == overlays[1]
           a == o.steps[1]
       IN /\ a \in DOMAIN res.content.Attributes
          /\ res.content.Attributes[a] =
                 [Name |-> a, Expr |-> [val |-> o.val, rng |-> ZeroRange]]
          /\ \A i \in 1..Len(res.diags) : res.diags[i].Summary # "Invalid argument"

\* C1, replacement: the file defines a with another value and a source range
C1_Witness ==
    /\ res.op = "Content"
    /\ Len(overlays) = 1
    /\ Len(overlays[1].steps) = 1
    /\ HasAttrS(res.schema, overlays[1].steps[1])
    /\ overlays[1].steps[1] \in DOMAIN doc.Attributes
    /\ doc.Attributes[overlays[1].steps[1]].Expr # [val |-> overlays[1].val, rng |-> ZeroRange]
    /\ res.content.Attributes[overlays[1].steps[1]].Expr.val = overlays[1].val

\* C1, insertion: the file does not define a, and v is the empty string
C1_WitnessInsertion ==
    /\ res.op = "Content"
    /\ Len(overlays) = 1
    /\ Len(overlays[1].steps) = 1
    /\ HasAttrS(res.schema, overlays[1].steps[1])
    /\ overlays[1].steps[1] \notin DOMAIN doc.Attributes
    /\ overlays[1].val = <<>>
    /\ overlays[1].steps[1] \in DOMAIN res.content.Attributes

\* the last call was PartialApplyOverlay with a path into a block of the schema
C2C3_Case ==
    /\ step.op = "PartialApplyOverlay"
    /\ IsBlockPath(step.o[1], StepSchema)

\* C2: when the content has blocks of the path's type with exactly the
\* path's labels, PartialApplyOverlay wraps the body of the first of them
\* with the sub-overlay and leaves every other block, and the length and
\* order of the block list, unchanged.
C2_FirstMatchingBlockOnly ==
    C2C3_Case =>
        LET o == step.o[1]
            hits == HeaderMatches(step.before.Blocks, o.steps[1], PathLabels(o, StepSchema))
        IN hits # {} =>
             LET first == CHOOSE i \in hits : \A j \in hits : i <= j
             IN /\ Len(step.content.Blocks) = Len(step.before.Blocks)
                /\ step.content.Blocks[first] =
                       [step.before.Blocks[first] EXCEPT !.Body =
                           applyBody(@, <<RestOverlay(o, StepSchema)>>)]
                /\ \A i \in 1..Len(step.before.Blocks) :
                       i # first => step.content.Blocks[i] = step.before.Blocks[i]

\* C2: two blocks have the wanted header, another block of the type has
\* other labels, and the first of the two was wrapped
C2_Witness ==
    /\ C2C3_Case
    /\ LET o == step.o[1]
           hits == HeaderMatches(step.before.Blocks, o.steps[1], PathLabels(o, StepSchema))
       IN /\ Cardinality(hits) >= 2
          /\ step.content # step.before
          /\ \E i \in 1..Len(step.before.Blocks) : i \notin hits

\* C2 with no labels (k = 0) and a block of the type in the content
C2_WitnessNoLabels ==
    /\ C2C3_Case
    /\ PathLabels(step.o[1], StepSchema) = <<>>
    /\ HeaderMatches(step.before.Blocks, step.o[1].steps[1], <<>>) # {}
    /\ step.content # step.before

\* C3: when the content has no block of the path's type with exactly the
\* path's labels, PartialApplyOverlay appends one block with that type,
\* those labels, a zero range for each label and, as its body, the
\* sub-overlay applied to an empty body; the blocks before it are unchanged.
C3_NewBlockAppended ==
    C2C3_Case =>
        LET o == step.o[1]
            labels == PathLabels(o, StepSchema)
        IN HeaderMatches(step.before.Blocks, o.steps[1], labels) = {} =>
             step.content.Blocks =
                 Append(step.before.Blocks,
                        [Type |-> o.steps[1],
                         Labels |-> labels,
                         LabelRanges |-> [i \in 1..Len(labels) |-> ZeroRange],
                         Body |-> applyBody(EmptyBody, <<RestOverlay(o, StepSchema)>>)])

\* C3: a block of the same type with other labels exists and a new block
\* was appended after it
C3_Witness ==
    /\ C2C3_Case
    /\ LET o == step.o[1]
           labels == PathLabels(o, StepSchema)
       IN /\ HeaderMatches(step.before.Blocks, o.steps[1], labels) = {}
          /\ \E i \in 1..Len(step.before.Blocks) :
                 /\ step.before.Blocks[i].Type = o.steps[1]
                 /\ step.before.Blocks[i].Labels # labels
          /\ Len(step.content.Blocks) = Len(step.before.Blocks) + 1

\* the name at which the path is looked up, going down from a decoding
\* target, is neither an attribute nor a block type of the body reached
RECURSIVE LookupFails(_, _)
LookupFails(steps, sp) ==
    LET bi == FirstBlockS(sp.Blocks, steps[1])
    IN IF HasAttrS(sp, steps[1]) THEN FALSE
       ELSE IF bi = 0 THEN TRUE
       ELSE IF Len(steps) < Len(sp.Blocks[bi].LabelNames) + 2 THEN FALSE
       ELSE LookupFails(SubSeq(steps, Len(sp.Blocks[bi].LabelNames) + 2, Len(steps)),
                        sp.Blocks[bi].Body)

\* the diagnostics have an "Unexpected argument" error that shows this path
ReportsUnexpected(diags, path) ==
    \E i \in 1..Len(diags) :
        /\ diags[i].Severity = "DiagError"
        /\ diags[i].Detail = "Unexpected argument"
        /\ diags[i].Args = <<path>>

\* C4: under full decoding, an overlay whose name is declared neither as an
\* attribute nor as a block type where it is looked up is reported as an
\* "Unexpected argument" error that shows the full path as given: by
\* Content when the lookup is at the root, and by the decoding of the
\* selected block's body when it is inside a block, at any depth.
C4_UnexpectedArgumentShowsFullPath ==
    /\ res.op = "Content" =>
           \A i \in 1..Len(overlays) :
               (~HasAttrS(res.schema, overlays[i].steps[1])
                /\ ~HasBlockS(res.schema, overlays[i].steps[1]))
               => ReportsUnexpected(res.diags, JoinDots(overlays[i].steps))
    /\ res.op = "DecodeBody" =>
           \A i \in 1..Len(overlays) :
               LookupFails(overlays[i].steps, spec)
               => ReportsUnexpected(res.diags, JoinDots(overlays[i].steps))

\* C4: the lookup fails inside a block with two labels, two levels below
\* the root, and the error shows the full path
C4_Witness ==
    /\ res.op = "DecodeBody"
    /\ \E i \in 1..Len(overlays) :
           /\ Len(overlays[i].steps) = 4
           /\ HasBlockS(spec, overlays[i].steps[1])
           /\ LookupFails(overlays[i].steps, spec)
           /\ ReportsUnexpected(res.diags, overlays[i].fullPath)

\* C4: the lookup fails in a block inside a block
C4_WitnessDeep ==
    /\ res.op = "DecodeBody"
    /\ \E i \in 1..Len(overlays) :
           /\ overlays[i].steps = <<<<"n">>, <<"n">>, <<"a">>>>
           /\ LookupFails(overlays[i].steps, spec)
           /\ ReportsUnexpected(res.diags, overlays[i].fullPath)

\* C5: PartialApplyOverlay returns a leftover exactly when the first step
\* is neither an attribute nor a block type of the schema; the leftover is
\* then the overlay itself, the content is unchanged and there is no
\* diagnostic.
C5_LeftoverIffNoSchemaMatch ==
    step.op = "PartialApplyOverlay" =>
        LET o == step.o[1]
            matches == HasAttrS(StepSchema, o.steps[1]) \/ HasBlockS(StepSchema, o.steps[1])
        IN /\ (step.remain # <<>>) <=> ~matches
           /\ ~matches => /\ step.remain = <<o>>
                          /\ step.content = step.before
                          /\ step.diags = <<>>

\* C5: one call returned the overlay as leftover
C5_Witness ==
    /\ step.op = "PartialApplyOverlay"
    /\ step.remain = step.o
    /\ ~HasAttrS(StepSchema, step.o[1].steps[1])
    /\ ~HasBlockS(StepSchema, step.o[1].steps[1])

\* C5: one call rejected the overlay with an error and returned no leftover
C5_WitnessRejected ==
    /\ step.op = "PartialApplyOverlay"
    /\ step.remain = <<>>
    /\ step.diags # <<>>

\* how many diagnostics report this attribute as missing
MissingCount(diags, name) ==
    Cardinality({i \in 1..Len(diags) :
                    diags[i].Summary = "Missing required argument" /\ diags[i].Args = <<name>>})

\* C6: Content and PartialContent of a view report exactly one "Missing
\* required argument" error for each attribute the schema requires and the
\* final content lacks, and none for any other attribute: the file is
\* decoded with nothing required and the requirement is checked after the
\* overlays.
C6_RequiredCheckedAfterOverlays ==
    (res.op \in {"Content", "PartialContent"} /\ Len(overlays) >= 1) =>
        /\ \A i \in 1..Len(res.schema.Attributes) :
               LET s == res.schema.Attributes[i]
               IN MissingCount(res.diags, s.Name) =
                      IF s.Required /\ s.Name \notin DOMAIN res.content.Attributes
                      THEN 1 ELSE 0
        /\ \A i \in 1..Len(res.diags) :
               res.diags[i].Summary = "Missing required argument"
               => \E j \in 1..Len(res.schema.Attributes) :
                      res.diags[i].Args = <<res.schema.Attributes[j].Name>>

\* C6: a required attribute that the file lacks and an overlay supplies
C6_Witness ==
    /\ res.op \in {"Content", "PartialContent"}
    /\ \E i \in 1..Len(res.schema.Attributes) :
           LET s == res.schema.Attributes[i]
           IN /\ s.Required
              /\ s.Name \notin DOMAIN doc.Attributes
              /\ s.Name \in DOMAIN res.content.Attributes
              /\ MissingCount(res.diags, s.Name) = 0

\* C6: a required attribute that is still missing after the overlays
C6_WitnessMissing ==
    /\ res.op \in {"Content", "PartialContent"}
    /\ Len(overlays) >= 1
    /\ \E i \in 1..Len(res.schema.Attributes) :
           MissingCount(res.diags, res.schema.Attributes[i].Name) = 1

\* the overlays applied one after the other, each to the content the one
\* before it returned
RECURSIVE LeftFold(_, _, _)
LeftFold(ovs, content, schema) ==
    IF ovs = <<>> THEN content
    ELSE LeftFold(Tail(ovs), ApplyOverlay(Head(ovs), content, schema).content, schema)

\* the one-step overlays of the list that set this attribute
Setters(ovs, name) == {i \in 1..Len(ovs) : ovs[i].steps = <<name>>}

\* C7: the content of a view is the left-to-right fold of its overlays over
\* the file's content; of the overlays that set one attribute the last one
\* gives the final value; and overlays that go into a block header the file
\* lacks share one synthesized block.
C7_LeftToRightFold ==
    (res.op = "Content" /\ Len(overlays) >= 1) =>
        /\ res.content = LeftFold(overlays, InnerContent, schemaNoRequired(res.schema))
        /\ \A i \in 1..Len(res.schema.Attributes) :
               LET name == res.schema.Attributes[i].Name
                   set == Setters(overlays, name)
               IN set # {} =>
                    LET last == CHOOSE j \in set : \A k \in set : k <= j
                    IN res.content.Attributes[name].Expr.val = overlays[last].val
        /\ \A i \in 1..Len(overlays) :
               IsBlockPath(overlays[i], res.schema) =>
                   LET type == overlays[i].steps[1]
                       labels == PathLabels(overlays[i], res.schema)
                       inFile == Cardinality(HeaderMatches(InnerContent.Blocks, type, labels))
                   IN Cardinality(HeaderMatches(res.content.Blocks, type, labels)) =
                          IF inFile = 0 THEN 1 ELSE inFile

\* C7: two overlays set the same attribute to different values and the
\* second one's value is the final one
C7_Witness ==
    /\ res.op = "Content"
    /\ Len(overlays) = 2
    /\ overlays[1].steps = overlays[2].steps
    /\ overlays[1].val # overlays[2].val
    /\ Len(overlays[1].steps) = 1
    /\ HasAttrS(res.schema, overlays[1].steps[1])
    /\ res.content.Attributes[overlays[1].steps[1]].Expr.val = overlays[2].val

\* C7: the second overlay goes into the block the first one synthesized
C7_WitnessBlockReuse ==
    /\ res.op = "Content"
    /\ Len(overlays) = 2
    /\ overlays[1] # overlays[2]
    /\ IsBlockPath(overlays[1], res.schema)
    /\ IsBlockPath(overlays[2], res.schema)
    /\ overlays[1].steps[1] = overlays[2].steps[1]
    /\ PathLabels(overlays[1], res.schema) = PathLabels(overlays[2], res.schema)
    /\ HeaderMatches(InnerContent.Blocks, overlays[1].steps[1],
                     PathLabels(overlays[1], res.schema)) = {}
    /\ Len(res.content.Blocks) = Len(InnerContent.Blocks) + 1
    /\ res.content.Blocks[Len(res.content.Blocks)].Body =
           applyBody(applyBody(EmptyBody, <<RestOverlay(overlays[1], res.schema)>>),
                     <<RestOverlay(overlays[2], res.schema)>>)

\* C8: a view with an overlay given twice decodes to the same value
\* (attributes, block types and labels, nested bodies) as a view with the
\* overlay given once.
C8_SameOverlayTwice ==
    (res.op = "DecodeBody" /\ Len(overlays) = 2 /\ overlays[1] = overlays[2]) =>
        res.val = DecodeBody(ApplyOverlays(doc, <<overlays[1]>>), spec).val

\* C8: the overlay synthesizes a block
C8_Witness ==
    /\ res.op = "DecodeBody"
    /\ Len(overlays) = 2
    /\ overlays[1] = overlays[2]
    /\ IsBlockPath(overlays[1], ImpliedBodySchema(spec))
    /\ HeaderMatches(InnerContent.Blocks, overlays[1].steps[1],
                     PathLabels(overlays[1], ImpliedBodySchema(spec))) = {}
    /\ Len(res.val.Blocks) = Len(InnerContent.Blocks) + 1

\* C8: the overlay goes into a block of the file
C8_WitnessExistingBlock ==
    /\ res.op = "DecodeBody"
    /\ Len(overlays) = 2
    /\ overlays[1] = overlays[2]
    /\ IsBlockPath(overlays[1], ImpliedBodySchema(spec))
    /\ HeaderMatches(InnerContent.Blocks, overlays[1].steps[1],
                     PathLabels(overlays[1], ImpliedBodySchema(spec))) # {}
    /\ res.val # DecodeBody(doc, spec).val

\* C8: the overlay sets an attribute
C8_WitnessAttribute ==
    /\ res.op = "DecodeBody"
    /\ Len(overlays) = 2
    /\ overlays[1] = overlays[2]
    /\ HasAttrS(spec, overlays[1].steps[1])
    /\ res.val # DecodeBody(doc, spec).val

\* the overlays whose first step is neither an attribute nor a block type
\* of the schema, in order
RECURSIVE Unmatched(_, _)
Unmatched(ovs, schema) ==
    IF ovs = <<>> THEN <<>>
    ELSE (IF HasAttrS(schema, Head(ovs).steps[1]) \/ HasBlockS(schema, Head(ovs).steps[1])
          THEN <<>> ELSE <<Head(ovs)>>) \o Unmatched(Tail(ovs), schema)

\* C9: the remainder of PartialContent carries exactly the overlays the
\* schema matched by neither an attribute nor a block type, once each and
\* in order, around the file's own remainder, and is the file's remainder
\* itself when there is none; Content on the remainder with a schema that
\* declares their names applies them.
C9_RemainderCarriesUnmatchedOverlays ==
    /\ (res.op = "PartialContent" /\ Len(overlays) >= 1) =>
           LET left == Unmatched(overlays, res.schema)
               base == SyntaxPartialContent(doc, schemaNoRequired(res.schema)).remain
           IN res.remain[1] = IF left = <<>> THEN base ELSE applyBody(base, left)
    /\ (res.op = "RemainContent" /\ Len(overlays) >= 1) =>
           LET left == Unmatched(overlays, ImpliedBodySchema(spec))
           IN /\ \A i \in 1..Len(res.schema.Attributes) :
                     LET name == res.schema.Attributes[i].Name
                         set == Setters(left, name)
                     IN set # {} =>
                          LET last == CHOOSE j \in set : \A k \in set : k <= j
                          IN /\ name \in DOMAIN res.content.Attributes
                             /\ res.content.Attributes[name].Expr =
                                    [val |-> left[last].val, rng |-> ZeroRange]
              /\ \A i \in 1..Len(left) :
                     IsBlockPath(left[i], res.schema) =>
                         HeaderMatches(res.content.Blocks, left[i].steps[1],
                                       PathLabels(left[i], res.schema)) # {}

\* C9: of two overlays one was applied and the other is carried by the
\* remainder
C9_Witness ==
    /\ res.op = "PartialContent"
    /\ Len(overlays) = 2
    /\ Len(Unmatched(overlays, res.schema)) = 1
    /\ res.remain[1].kind = "apply"
    /\ res.remain[1].overlays = Unmatched(overlays, res.schema)
    /\ res.content # InnerContent

\* C9: no overlay is left over and the remainder is not a wrapper
C9_WitnessNoWrapper ==
    /\ res.op = "PartialContent"
    /\ Len(overlays) >= 1
    /\ res.remain[1].kind = "syntax"

\* C9: the next pass applied an overlay that the first pass left over
C9_WitnessNextPass ==
    /\ res.op = "RemainContent"
    /\ \E i \in 1..Len(overlays) :
           /\ Len(overlays[i].steps) = 1
           /\ ~HasAttrS(spec, overlays[i].steps[1])
           /\ HasAttrS(res.schema, overlays[i].steps[1])
           /\ res.content.Attributes[overlays[i].steps[1]].Expr =
                  [val |-> overlays[i].val, rng |-> ZeroRange]

\* the index of the first argument that is literally "--", or one more
\* than the number of arguments
Terminator(args) ==
    IF \E i \in 1..Len(args) : args[i] = <<"-", "-">>
    THEN CHOOSE i \in 1..Len(args) :
             args[i] = <<"-", "-">> /\ \A j \in 1..(i-1) : args[j] # <<"-", "-">>
    ELSE Len(args) + 1

\* the argument at i is an option of the schema, before the terminator
IsSchemaOption(args, i, schema) ==
    /\ i < Terminator(args)
    /\ HasPrefix(args[i], <<"-", "-">>)
    /\ SchemaMatches(schema, MatchName(args[i]))

\* an overlay was produced for the argument at i
ProducedOverlay(args, i, schema) ==
    /\ IsSchemaOption(args, i, schema)
    /\ ParseCLIArgument(SliceFrom(args[i], 2)).overlay # <<>>

\* the argument at i was not interpreted as an overlay: it is after the
\* terminator, or has no "--" prefix, or names nothing of the schema
NotInterpreted(args, i, schema) ==
    \/ i > Terminator(args)
    \/ /\ i < Terminator(args)
       /\ ~IsSchemaOption(args, i, schema)

\* the arguments at the positions of keep, in order
RECURSIVE ArgsAt(_, _, _)
ArgsAt(args, i, keep) ==
    IF i > Len(args) THEN <<>>
    ELSE (IF i \in keep THEN <<args[i]>> ELSE <<>>) \o ArgsAt(args, i + 1, keep)

\* C10: the second result of ExtractCLIOptions holds, in order, every
\* argument that was not interpreted as an overlay and no argument for
\* which an overlay was produced (the terminator itself and options that
\* failed to parse may be in it or not).
C10_RemainingArgsExcludeOverlays ==
    cli.op = "ExtractCLIOptions" =>
        LET schema == ImpliedBodySchema(spec)
            must == {i \in 1..Len(cli.args) : NotInterpreted(cli.args, i, schema)}
            free == {i \in 1..Len(cli.args) :
                        ~NotInterpreted(cli.args, i, schema)
                        /\ ~ProducedOverlay(cli.args, i, schema)}
        IN \E keep \in SUBSET free : cli.remain = ArgsAt(cli.args, 1, must \cup keep)

\* the positions (from 1) of the equals signs of a string
EqualsAt(raw) == {i \in 1..Len(raw) : raw[i] = "="}

\* the position (from 1) of the first equals sign
FirstEquals(raw) == CHOOSE i \in EqualsAt(raw) : \A j \in EqualsAt(raw) : i <= j

\* the positions (from 1) of the dots of a path, with 0 before the first
\* character and one more than the length after the last one
Cuts(path) == {0, Len(path) + 1} \cup {i \in 1..Len(path) : path[i] = "."}

\* the segments of a path between its dots, in order
Segments(path) ==
    LET cuts == Cuts(path)
        nth(n) == CHOOSE c \in cuts : Cardinality({d \in cuts : d < c}) = n
    IN [n \in 1..(Cardinality(cuts) - 1) |-> SubSeq(path, nth(n - 1) + 1, nth(n) - 1)]

\* the segments that are not valid identifiers, in order
RECURSIVE InvalidSegments(_)
InvalidSegments(segs) ==
    IF segs = <<>> THEN <<>>
    ELSE (IF ValidIdentifier(Head(segs)) THEN <<>> ELSE <<Head(segs)>>)
             \o InvalidSegments(Tail(segs))

\* C11: ParseCLIArgument returns an overlay exactly when the argument has
\* an equals sign that is not its first character and every segment between
\* the dots of the text before the first equals sign is a valid identifier;
\* the overlay has that text as its full path, the segments as its steps
\* and everything after the first equals sign as its value. Otherwise there
\* is no overlay, and the diagnostics are one syntax error (no equals sign,
\* or a leading one) or one error for each invalid segment, in order.
C11_ParseCLIArgument ==
    cli.op = "ParseCLIArgument" =>
        LET raw == cli.raw
            hasPath == EqualsAt(raw) # {} /\ FirstEquals(raw) >= 2
        IN IF ~hasPath
           THEN /\ cli.overlays = <<>>
                /\ Len(cli.diags) = 1
                /\ cli.diags[1].Severity = "DiagError"
                /\ cli.diags[1].Detail = "must be a configuration setting"
                /\ cli.diags[1].Args = <<raw>>
           ELSE LET path == SubSeq(raw, 1, FirstEquals(raw) - 1)
                    bad == InvalidSegments(Segments(path))
                IN IF bad = <<>>
                   THEN /\ cli.overlays =
                               <<[fullPath |-> path,
                                  steps |-> Segments(path),
                                  val |-> SubSeq(raw, FirstEquals(raw) + 1, Len(raw))]>>
                        /\ cli.diags = <<>>
                   ELSE /\ cli.overlays = <<>>
                        /\ Len(cli.diags) = Len(bad)
                        /\ \A i \in 1..Len(bad) :
                               /\ cli.diags[i].Severity = "DiagError"
                               /\ cli.diags[i].Detail = "Invalid component"
                               /\ cli.diags[i].Args = <<bad[i], path>>

\* C11: an overlay whose value has a further equals sign and a dot
C11_Witness ==
    /\ cli.op = "ParseCLIArgument"
    /\ cli.overlays # <<>>
    /\ \E i \in 1..Len(cli.overlays[1].val) : cli.overlays[1].val[i] = "="
    /\ \E i \in 1..Len(cli.overlays[1].val) : cli.overlays[1].val[i] = "."
    /\ cli.overlays[1].steps = <<<<"a">>>>

\* C11: an overlay with the empty value
C11_WitnessEmptyValue ==
    /\ cli.op = "ParseCLIArgument"
    /\ cli.overlays # <<>>
    /\ cli.overlays[1].val = <<>>

\* C11: two invalid segments, reported together
C11_WitnessTwoInvalid ==
    /\ cli.op = "ParseCLIArgument"
    /\ cli.overlays = <<>>
    /\ Len(cli.diags) = 2

\* C11: an empty segment between two dots
C11_WitnessEmptySegment ==
    /\ cli.op = "ParseCLIArgument"
    /\ cli.overlays = <<>>
    /\ Len(cli.diags) = 1
    /\ cli.diags[1].Detail = "Invalid component"
    /\ cli.diags[1].Args[1] = <<>>

\* C11: no equals sign, and a leading equals sign
C11_WitnessNoPath ==
    /\ cli.op = "ParseCLIArgument"
    /\ cli.diags # <<>>
    /\ cli.diags[1].Detail = "must be a configuration setting"
    /\ EqualsAt(cli.raw) # {}

\* one "Unexpected argument" error for each overlay with more than one
\* step, in the order of the overlays
RECURSIVE MultiStepErrors(_)
MultiStepErrors(ovs) ==
    IF ovs = <<>> THEN <<>>
    ELSE (IF Len(Head(ovs).steps) > 1
          THEN <<Diagnostic("Invalid argument", "Unexpected argument",
                            <<Head(ovs).fullPath>>)>>
          ELSE <<>>) \o MultiStepErrors(Tail(ovs))

\* the names in the schema of the content the single calls work on
StepSchemaNames ==
    {StepSchema.Attributes[i].Name : i \in 1..Len(StepSchema.Attributes)}
        \cup {StepSchema.Blocks[i].Type : i \in 1..Len(StepSchema.Blocks)}

\* C12: ApplyJustAttributes with a one-step overlay sets the entry of that
\* step to the string value with the zero range, whatever the schema, and
\* leaves every other entry alone; with more steps it gives one "Unexpected
\* argument" error and the same map. JustAttributes of a view folds this
\* over the file's attributes in overlay order and goes on after an error.
C12_JustAttributes ==
    /\ step.op = "ApplyJustAttributes" =>
           LET o == step.o[1]
               old == step.before.Attributes
               new == step.content.Attributes
           IN IF Len(o.steps) = 1
              THEN /\ step.diags = <<>>
                   /\ DOMAIN new = DOMAIN old \cup {o.steps[1]}
                   /\ new[o.steps[1]] =
                          [Name |-> o.steps[1], Expr |-> [val |-> o.val, rng |-> "zero"]]
                   /\ \A n \in DOMAIN old : n # o.steps[1] => new[n] = old[n]
              ELSE /\ Len(step.diags) = 1
                   /\ step.diags[1].Severity = "DiagError"
                   /\ step.diags[1].Detail = "Unexpected argument"
                   /\ step.diags[1].Args = <<o.fullPath>>
                   /\ new = old
    /\ (res.op = "JustAttributes" /\ Len(overlays) >= 1) =>
           LET base == SyntaxJustAttributes(doc)
               set(n) == Setters(overlays, n)
               last(n) == CHOOSE i \in set(n) : \A j \in set(n) : j <= i
               names == {overlays[i].steps[1] :
                            i \in {j \in 1..Len(overlays) : Len(overlays[j].steps) = 1}}
           IN /\ DOMAIN res.attrs = DOMAIN base.attrs \cup names
              /\ \A n \in DOMAIN res.attrs :
                     res.attrs[n] =
                         IF set(n) # {}
                         THEN [Name |-> n,
                               Expr |-> [val |-> overlays[last(n)].val, rng |-> "zero"]]
                         ELSE base.attrs[n]
              /\ res.diags = base.diags \o MultiStepErrors(overlays)

\* C12: a one-step overlay whose name the schema lacks adds its entry
C12_Witness ==
    /\ step.op = "ApplyJustAttributes"
    /\ Len(step.o[1].steps) = 1
    /\ step.o[1].steps[1] \notin StepSchemaNames
    /\ step.o[1].steps[1] \notin DOMAIN step.before.Attributes
    /\ step.o[1].steps[1] \in DOMAIN step.content.Attributes
    /\ DOMAIN step.before.Attributes # {}

\* C12: an overlay with more steps is rejected and the map stays
C12_WitnessRejected ==
    /\ step.op = "ApplyJustAttributes"
    /\ Len(step.o[1].steps) > 1
    /\ step.diags # <<>>
    /\ DOMAIN step.content.Attributes # {}

\* C12: a view whose first overlay is rejected and whose second one is
\* applied, over a file with blocks
C12_WitnessContinues ==
    /\ res.op = "JustAttributes"
    /\ Len(overlays) = 2
    /\ Len(overlays[1].steps) > 1
    /\ Len(overlays[2].steps) = 1
    /\ overlays[2].steps[1] \in DOMAIN res.attrs
    /\ res.attrs[overlays[2].steps[1]].Expr.val = overlays[2].val
    /\ Len(res.diags) > 1

\* C12: a view with two overlays for one attribute, where the later wins
C12_WitnessLastWins ==
    /\ res.op = "JustAttributes"
    /\ Len(overlays) = 2
    /\ overlays[1].steps = overlays[2].steps
    /\ overlays[1].val # overlays[2].val
    /\ Len(overlays[2].steps) = 1
    /\ res.attrs[overlays[2].steps[1]].Expr.val = overlays[2].val

\* every attribute name of old is in new, every block of old is in new at
\* its position with its type and labels, and new has at most n more
\* attribute names and blocks than old
GrownBy(old, new, n) ==
    /\ DOMAIN old.Attributes \subseteq DOMAIN new.Attributes
    /\ Len(new.Blocks) >= Len(old.Blocks)
    /\ \A i \in 1..Len(old.Blocks) :
           /\ new.Blocks[i].Type = old.Blocks[i].Type
           /\ new.Blocks[i].Labels = old.Blocks[i].Labels
    /\ Cardinality(DOMAIN new.Attributes \ DOMAIN old.Attributes)
           + (Len(new.Blocks) - Len(old.Blocks)) <= n

\* C13: whatever overlays have been applied to a content (ApplyOverlay,
\* PartialApplyOverlay or ApplyJustAttributes, accepted or rejected), the
\* attribute names and the blocks it had are still there, each block at its
\* position with its type and labels, and each application adds at most
\* one attribute or one block.
C13_NeverRemoves ==
    /\ step.n >= 1 =>
           /\ GrownBy(step.before, step.content, 1)
           /\ GrownBy(InnerContent, step.content, step.n)
           /\ step.diags # <<>> => step.content = step.before
    /\ res.op = "Content" => GrownBy(InnerContent, res.content, Len(overlays))

\* C13: two applications to a content with attributes and blocks, one that
\* added an attribute and one that added a block
C13_Witness ==
    /\ step.n = 2
    /\ DOMAIN InnerContent.Attributes # {}
    /\ Len(InnerContent.Blocks) >= 2
    /\ Cardinality(DOMAIN step.content.Attributes) =
           Cardinality(DOMAIN InnerContent.Attributes) + 1
    /\ Len(step.content.Blocks) = Len(InnerContent.Blocks) + 1

\* C13: a rejected application after one that added something
C13_WitnessRejected ==
    /\ step.n = 2
    /\ step.diags # <<>>
    /\ step.before # InnerContent
    /\ step.content = step.before

\* C13: an application that replaced an existing attribute
C13_WitnessReplaced ==
    /\ step.n >= 1
    /\ step.op = "PartialApplyOverlay"
    /\ DOMAIN step.content.Attributes = DOMAIN step.before.Attributes
    /\ Len(step.content.Blocks) = Len(step.before.Blocks)
    /\ step.content.Attributes # step.before.Attributes
    /\ Cardinality(DOMAIN step.before.Attributes) >= 2

\* the first step names an attribute of the schema and more steps follow
AttributeAsPrefix(o, schema) ==
    HasAttrS(schema, o.steps[1]) /\ Len(o.steps) > 1

\* the first step names a block type of the schema (and no attribute) and
\* the steps are fewer than the type, its labels and one inner step
BlockPathTooShort(o, schema) ==
    /\ ~HasAttrS(schema, o.steps[1])
    /\ PathBlockS(o, schema) # 0
    /\ Len(o.steps) < PathLabelCount(o, schema) + 2

\* the first step names a block type of the schema (and no attribute) and
\* the steps are exactly the type, its labels and one inner step
BlockPathExact(o, schema) ==
    /\ ~HasAttrS(schema, o.steps[1])
    /\ PathBlockS(o, schema) # 0
    /\ Len(o.steps) = PathLabelCount(o, schema) + 2

\* the first step is neither an attribute nor a block type of the schema
NoSchemaMatch(o, schema) ==
    ~HasAttrS(schema, o.steps[1]) /\ ~HasBlockS(schema, o.steps[1])

\* the "Invalid argument" errors among diagnostics
InvalidArgumentErrors(diags) ==
    {i \in 1..Len(diags) : diags[i].Summary = "Invalid argument"}

\* C14: a path whose first step the schema knows but whose length is wrong
\* is rejected without effect. An attribute name followed by more steps,
\* and a block type with k label names followed by fewer than k + 1 more
\* steps, each give exactly one error that shows the full path, the content
\* as it was and no leftover, under partial and under full application; a
\* block path of exactly k + 2 steps is accepted. Content of a view holds
\* one such error for each rejected or unmatched overlay, never two.
C14_WrongLengthRejected ==
    /\ step.op \in {"PartialApplyOverlay", "ApplyOverlay"} =>
           LET o == step.o[1]
           IN /\ (AttributeAsPrefix(o, StepSchema) \/ BlockPathTooShort(o, StepSchema)) =>
                     /\ Len(step.diags) = 1
                     /\ step.diags[1].Severity = "DiagError"
                     /\ step.diags[1].Summary = "Invalid argument"
                     /\ step.diags[1].Args = <<o.fullPath>>
                     /\ step.content = step.before
                     /\ step.remain = <<>>
              /\ BlockPathExact(o, StepSchema) =>
                     /\ step.diags = <<>>
                     /\ step.remain = <<>>
                     /\ step.content # step.before
                     /\ step.content.Attributes = step.before.Attributes
    /\ (res.op = "Content" /\ Len(overlays) >= 1) =>
           LET modSchema == schemaNoRequired(res.schema)
               bad == {j \in 1..Len(overlays) :
                          \/ AttributeAsPrefix(overlays[j], modSchema)
                          \/ BlockPathTooShort(overlays[j], modSchema)
                          \/ NoSchemaMatch(overlays[j], modSchema)}
           IN /\ Cardinality(InvalidArgumentErrors(res.diags)) = Cardinality(bad)
              /\ bad = 1..Len(overlays) => res.content = InnerContent

\* C14: full application of an attribute name followed by another step
C14_Witness ==
    /\ step.op = "ApplyOverlay"
    /\ AttributeAsPrefix(step.o[1], StepSchema)
    /\ step.o[1].steps[1] \in DOMAIN step.before.Attributes
    /\ Len(step.diags) = 1

\* C14: full application of a block path that ends after its one label
C14_WitnessTooShort ==
    /\ step.op = "ApplyOverlay"
    /\ BlockPathTooShort(step.o[1], StepSchema)
    /\ PathLabelCount(step.o[1], StepSchema) = 1
    /\ Len(step.o[1].steps) = 2
    /\ Len(step.diags) = 1
    /\ Len(step.before.Blocks) >= 1

\* C14: partial application of a block path with one of its two labels
C14_WitnessLabelMissing ==
    /\ step.op = "PartialApplyOverlay"
    /\ BlockPathTooShort(step.o[1], StepSchema)
    /\ PathLabelCount(step.o[1], StepSchema) = 2
    /\ step.remain = <<>>
    /\ Len(step.diags) = 1

\* C14: block paths of exactly k + 2 steps, for k = 0, 1 and 2, accepted
C14_WitnessExactZero ==
    /\ step.op = "PartialApplyOverlay"
    /\ BlockPathExact(step.o[1], StepSchema)
    /\ PathLabelCount(step.o[1], StepSchema) = 0
    /\ step.diags = <<>>

C14_WitnessExactOne ==
    /\ step.op = "ApplyOverlay"
    /\ BlockPathExact(step.o[1], StepSchema)
    /\ PathLabelCount(step.o[1], StepSchema) = 1
    /\ step.diags = <<>>

C14_WitnessExactTwo ==
    /\ step.op = "ApplyOverlay"
    /\ BlockPathExact(step.o[1], StepSchema)
    /\ PathLabelCount(step.o[1], StepSchema) = 2
    /\ step.diags = <<>>

\* C14: Content of a view with one rejected overlay holds one such error
C14_WitnessView ==
    /\ res.op = "Content"
    /\ Len(overlays) = 1
    /\ BlockPathTooShort(overlays[1], schemaNoRequired(res.schema))
    /\ Cardinality(InvalidArgumentErrors(res.diags)) = 1

====
